---- MODULE Spec2Model ----
(***************************************************************************)
(* Model of the operator supervisor engine (operator/src/engine.rs):       *)
(* Engine::run, the SIGCHLD handler, the self-pipe of mod comms, the       *)
(* control server of operator/src/ipc.rs, the child's side of the fork     *)
(* (Service::start, operator/src/service.rs) and the operating-system side *)
(* the engine interacts with (child processes, pending signals, control    *)
(* clients).  The model follows the system while the engine process        *)
(* exists: after run returns or panics nothing else is recorded.           *)
(***************************************************************************)
EXTENDS Integers, Sequences, FiniteSets, TLC

\* ------------------------------------------------------------------ bounds
\* Largest number of service files read_service_files returns.
MaxServices == 2
\* Number of 4-byte notifications the kernel pipe buffer holds.
PipeCap == 2
\* Number of control connections clients open over a run.
MaxConns == 2

\* One pid more than the engine can fork: some pid is never a child.
Pids == 1..(MaxServices + 1)
Names == {"a", "b"}
ConnIds == 1..MaxConns

\* ------------------------------------------------------- service::ServiceStatus
Running == "Running"
Stopped == "Stopped"
Zombie == "Zombie"
ServiceStatus == {Running, Stopped, Zombie}

\* ------------------------------------------------------------- ipc::IPCMessage
NoName == "-"
Start(n) == [kind |-> "Start", name |-> n]
Stop(n) == [kind |-> "Stop", name |-> n]
Status(n) == [kind |-> "Status", name |-> n]
\* StatusResponse(None) and StatusResponse(Some((pid, status)))
StatusResponseNone == [kind |-> "StatusResponse", some |-> FALSE, pid |-> 0, status |-> NoName]
StatusResponseSome(p, s) == [kind |-> "StatusResponse", some |-> TRUE, pid |-> p, status |-> s]
\* A StatusResponse sent by a client as if it were a request (the `_` arm).
ClientResponse == [kind |-> "StatusResponse", name |-> NoName]
NoMsg == [kind |-> "NoMsg", name |-> NoName]
\* What bincode can decode from a client's bytes.
Requests == {Start(n) : n \in Names} \cup {Stop(n) : n \in Names}
              \cup {Status(n) : n \in Names} \cup {ClientResponse}

\* ------------------------------------------------------------ comms encoding
\* The same four bytes, most significant first.
ToBeBytes(val) ==
    << (val \div 16777216) % 256, (val \div 65536) % 256, (val \div 256) % 256,
       val % 256 >>

\* i32::to_le_bytes: the two's-complement value, least significant byte first
\* (\div rounds down, so shifting a negative value keeps its sign bits).
ToLeBytes(val) ==
    << val % 256, (val \div 256) % 256, (val \div 65536) % 256,
       (val \div 16777216) % 256 >>

\* i32::from_le_bytes: the top byte carries the sign.
FromLeBytes(buf) ==
    LET hi == IF buf[4] >= 128 THEN buf[4] - 256 ELSE buf[4]
    IN  buf[1] + 256 * buf[2] + 65536 * buf[3] + 16777216 * hi

\* unistd::read(PIPES.0, &mut [0; 4]): up to 4 bytes from the head of the pipe.
ReadLen(p) == IF Len(p) < 4 THEN Len(p) ELSE 4
ReadBuf(p) == [i \in 1..4 |-> IF i <= Len(p) THEN p[i] ELSE 0]
Rest(p, n) == SubSeq(p, n + 1, Len(p))

VARIABLES
    pc,         \* where Engine::run is
    files,      \* names of the services read_service_files returned, in order
    idx,        \* index of the next service of the fork loop
    services,   \* Engine.services: pid -> Service (name, pid, status)
    forked,     \* the pids fork returned, in fork order
    proc,       \* kernel view of each pid
    sigchld,    \* si_pid of the pending SIGCHLD, 0 when none is pending
    sigterm,    \* pids the engine sent SIGTERM to and has not reaped since
    exitstatus, \* per pid: the exit status of a child that ended in Service::start
    PIPES,      \* lazy_static state of comms::PIPES
    pipe,       \* bytes in the kernel pipe buffer
    notified,   \* the values write_to_pipe wrote that read_from_pipe has not returned
    hblock,     \* whether signal_handler is stuck on top of the engine's thread
    revents,    \* what poll reported in this iteration: [pipe, ipc]
    waited,     \* this iteration's pipe branch: "none", "drained", "reaped", "failed"
    pid,        \* the pid read_from_pipe returned in this iteration
    conns,      \* control connections, by id: where each is on the engine's side
    stream,     \* the connection accept returned in this iteration, 0 if none
    msg,        \* the request read from stream in this iteration
    wrote,      \* the responses written to stream in this iteration
    killed      \* the kill(pid, SIGTERM) calls of this iteration

vars == << pc, files, idx, services, forked, proc, sigchld, sigterm, exitstatus, PIPES, pipe,
           notified, hblock, revents, waited, pid, conns, stream, msg, wrote, killed >>

NoRevents == [pipe |-> FALSE, ipc |-> FALSE]

\* Service names are interchangeable, so the first declared one is "a".
FileLists == {f \in UNION {[1..n -> Names] : n \in 0..MaxServices} :
                 Len(f) > 0 => f[1] = "a"}

Init ==
    /\ pc = "sigaction"
    /\ files \in FileLists
    /\ idx = 1
    /\ services = << >>
    /\ forked = << >>
    /\ proc = [p \in Pids |-> "none"]
    /\ sigchld = 0
    /\ sigterm = {}
    /\ exitstatus = [p \in Pids |-> {}]
    /\ PIPES = "uninit"
    /\ pipe = << >>
    /\ notified = << >>
    /\ hblock = "no"
    /\ revents = NoRevents
    /\ waited = "none"
    /\ pid = 0
    /\ conns = [c \in ConnIds |-> "unused"]
    /\ stream = 0
    /\ msg = NoMsg
    /\ wrote = << >>
    /\ killed = {}

\* The engine's thread executes run while the process exists and the signal
\* handler is not stuck on its stack; once it cannot run any more the model
\* records nothing further.
EngineRuns == pc \notin {"returned", "panicked"} /\ hblock = "no"
\* A pending SIGCHLD is delivered when the engine's thread next returns to
\* user mode, that is before run takes another step.
EngineSteps == EngineRuns /\ sigchld = 0
Serving == pc \in {"poll", "fd_pipe", "waitpid", "fd_ipc", "read", "dispatch", "end"}

\* ------------------------------------------------------- kernel: SIGCHLD
\* A standard signal is not queued: while one SIGCHLD is pending a second one
\* is dropped together with its siginfo, so si_pid stays that of the first.
Raise(p) == IF sigchld = 0 THEN p ELSE sigchld

\* Pids no live or unreaped process holds.
FreePids == {p \in Pids : proc[p] \in {"none", "reaped"}}

\* What fork returns in the parent: a pid not in use.  Which one does not
\* matter to the engine; the model takes the lowest.
ForkPids == {p \in FreePids : \A q \in FreePids : p <= q}

\* engine.rs:75-76  the record the parent branch builds for the child.
ParentRecordNoPid(name, child) == [name |-> name, pid |-> 0, status |-> Running]
ParentRecord(name, child) == [name |-> name, pid |-> child, status |-> Running]

\* A table to which nothing is added.
InsertNothing(tbl, k, v) == tbl
\* HashMap::insert: a new key is added, an existing key's value is replaced.
Insert(tbl, k, v) == [q \in DOMAIN tbl \cup {k} |-> IF q = k THEN v ELSE tbl[q]]

\* Groups of variables, for UNCHANGED.
declVars == << files, idx, forked >>
kernelVars == << proc, sigchld, sigterm, exitstatus >>
pipeVars == << PIPES, pipe, notified, hblock >>
iterVars == << revents, waited, pid, stream, msg, wrote, killed >>

\* ----------------------------------------------- Engine::run, initialization
\* engine.rs:59-62  sigaction(SIGCHLD, &sa) succeeds.
Sigaction ==
    /\ EngineSteps /\ pc = "sigaction"
    /\ pc' = "read_files"
    /\ UNCHANGED << declVars, services, kernelVars, pipeVars, iterVars, conns >>

\* engine.rs:63-66  sigaction fails: log and return.
SigactionFails ==
    /\ EngineSteps /\ pc = "sigaction"
    /\ pc' = "returned"
    /\ UNCHANGED << declVars, services, kernelVars, pipeVars, iterVars, conns >>

\* engine.rs:69  Service::read_service_files().unwrap() returns the files.
ReadServiceFiles ==
    /\ EngineSteps /\ pc = "read_files"
    /\ pc' = "fork"
    /\ UNCHANGED << declVars, services, kernelVars, pipeVars, iterVars, conns >>

\* engine.rs:69  read_service_files fails (no directory, bad file): unwrap panics.
ReadServiceFilesFails ==
    /\ EngineSteps /\ pc = "read_files"
    /\ pc' = "panicked"
    /\ UNCHANGED << declVars, services, kernelVars, pipeVars, iterVars, conns >>

\* engine.rs:70-74  one iteration of the fork loop: fork() returns the
\* child's pid in the parent; the child exists and runs Service::start.
Fork ==
    /\ EngineSteps /\ pc = "fork" /\ idx <= Len(files)
    /\ \E child \in ForkPids :
         /\ proc' = [proc EXCEPT ![child] = "starting"]
         /\ forked' = Append(forked, child)
    /\ pc' = "insert"
    /\ UNCHANGED << files, idx, services, sigchld, sigterm, exitstatus, pipeVars,
                    iterVars, conns >>

\* engine.rs:75-79  the parent branch sets status and pid and inserts the
\* record under the child's pid; the loop goes on with the next service.
InsertService ==
    /\ EngineSteps /\ pc = "insert"
    /\ LET child == forked[Len(forked)]
       IN  services' = Insert(services, child, ParentRecord(files[idx], child))
    /\ idx' = idx + 1
    /\ pc' = "fork"
    /\ UNCHANGED << files, forked, kernelVars, pipeVars, iterVars, conns >>

\* engine.rs:73  fork fails: unwrap panics.
ForkFails ==
    /\ EngineSteps /\ pc = "fork" /\ idx <= Len(files)
    /\ pc' = "panicked"
    /\ UNCHANGED << declVars, services, kernelVars, pipeVars, iterVars, conns >>

\* engine.rs:70,87  the loop is over; IPCServer::new() binds the endpoint.
IpcServerNew ==
    /\ EngineSteps /\ pc = "fork" /\ idx > Len(files)
    /\ pc' = "read_fd"
    /\ UNCHANGED << declVars, services, kernelVars, pipeVars, iterVars, conns >>

\* engine.rs:87, ipc.rs:67-68  bind or set_nonblocking fails: unwrap panics.
IpcServerNewFails ==
    /\ EngineSteps /\ pc = "fork" /\ idx > Len(files)
    /\ pc' = "panicked"
    /\ UNCHANGED << declVars, services, kernelVars, pipeVars, iterVars, conns >>

\* engine.rs:90, 206-212, 240-242  comms::read_fd() dereferences PIPES.  When
\* the handler has not created the pipe yet the engine's thread starts the
\* lazy initialization (the Once is held until PipesInit).
ReadFd ==
    /\ EngineSteps /\ pc = "read_fd"
    /\ IF PIPES = "done"
          THEN pc' = "poll" /\ PIPES' = PIPES
          ELSE pc' = "pipes_init" /\ PIPES' = "running"
    /\ UNCHANGED << declVars, services, kernelVars, pipe, notified, hblock, iterVars, conns >>

\* engine.rs:211  pipe().unwrap() inside the initializer succeeds.
PipesInit ==
    /\ EngineSteps /\ pc = "pipes_init"
    /\ PIPES' = "done"
    /\ pc' = "poll"
    /\ UNCHANGED << declVars, services, kernelVars, pipe, notified, hblock, iterVars, conns >>

\* ------------------------------------------- Engine::signal_handler, comms
\* engine.rs:233-237  write_to_pipe: the pipe after the 4-byte write.
write_to_pipe(p, val) == p \o ToLeBytes(val)

\* Whether the blocking write(2) of 4 bytes can complete now.
PipeHasRoom == Len(pipe) + 4 <= 4 * PipeCap

\* engine.rs:39-48  the kernel delivers the pending SIGCHLD to the engine's
\* thread, which runs signal_handler on top of whatever run was doing.  The
\* handler dereferences PIPES (creating the pipe if nobody has) and writes
\* si_pid.  The pipe is created blocking (pipe(), engine.rs:211): with the
\* buffer full the write waits for the reader, and with the Once held by the
\* interrupted initializer the dereference waits for it; in both cases the
\* one waited for is the interrupted thread itself.
signal_handler ==
    /\ EngineRuns /\ pc # "sigaction"
    /\ sigchld # 0
    /\ sigchld' = 0
    /\ IF PIPES = "running"
          THEN hblock' = "once" /\ UNCHANGED << PIPES, pipe, notified >>
          ELSE IF PipeHasRoom
                  THEN /\ pipe' = write_to_pipe(pipe, sigchld)
                       /\ notified' = Append(notified, sigchld)
                       /\ PIPES' = "done"
                       /\ hblock' = hblock
                  ELSE hblock' = "pipe_full" /\ UNCHANGED << PIPES, pipe, notified >>
    /\ UNCHANGED << pc, declVars, services, proc, sigterm, exitstatus, iterVars, conns >>

\* ------------------------------------------------------ kernel: the children
\* The exit status the parent sees for exit(code): the low 8 bits of code.
ExitStatus(code) == code % 256

\* service.rs:95-99  where the child is after a failed execv: start returns
\* `!`, and after logging it calls exit(-1), so the child is a zombie.
AfterExecFailsReturns == "in_run"
AfterExecFails == "zombie"

\* service.rs:95  execv succeeds: the child runs the service's program from
\* now on.
ExecOk(p) ==
    /\ EngineRuns /\ proc[p] = "starting"
    /\ proc' = [proc EXCEPT ![p] = "alive"]
    /\ UNCHANGED << pc, declVars, services, sigchld, sigterm, exitstatus, pipeVars,
                    iterVars, conns >>

\* service.rs:95-99  execv fails (no such file, not executable): the child
\* logs and calls exit(-1); the parent gets SIGCHLD.
ExecFails(p) ==
    /\ EngineRuns /\ proc[p] = "starting"
    /\ proc' = [proc EXCEPT ![p] = AfterExecFails]
    /\ exitstatus' = [exitstatus EXCEPT ![p] = {ExitStatus(-1)}]
    /\ sigchld' = Raise(p)
    /\ sigterm' = sigterm \ {p}
    /\ UNCHANGED << pc, declVars, services, pipeVars, iterVars, conns >>

\* The program of a service returns from main or calls exit: the child
\* becomes a zombie and the parent gets SIGCHLD.
ChildExit(p) ==
    /\ EngineRuns /\ proc[p] = "alive"
    /\ proc' = [proc EXCEPT ![p] = "zombie"]
    /\ sigchld' = Raise(p)
    /\ sigterm' = sigterm \ {p}
    /\ UNCHANGED << pc, declVars, services, exitstatus, pipeVars, iterVars, conns >>

\* A child is killed by a signal from outside the engine (SIGKILL also ends a
\* stopped child).
ChildKilled(p) ==
    /\ EngineRuns /\ proc[p] \in {"alive", "stopped"}
    /\ proc' = [proc EXCEPT ![p] = "zombie"]
    /\ sigchld' = Raise(p)
    /\ sigterm' = sigterm \ {p}
    /\ UNCHANGED << pc, declVars, services, exitstatus, pipeVars, iterVars, conns >>

\* The SIGTERM the engine sent (engine.rs:153) reaches a running child that
\* does not handle it: the child dies of the signal.
SigtermKills(p) ==
    /\ EngineRuns /\ p \in sigterm /\ proc[p] = "alive"
    /\ proc' = [proc EXCEPT ![p] = "zombie"]
    /\ sigchld' = Raise(p)
    /\ UNCHANGED << pc, declVars, services, sigterm, exitstatus, pipeVars, iterVars, conns >>

\* A child is stopped (SIGSTOP, SIGTSTP): sa_flags has no SA_NOCLDSTOP
\* (engine.rs:55), so the parent gets SIGCHLD for it.
ChildStop(p) ==
    /\ EngineRuns /\ proc[p] = "alive"
    /\ proc' = [proc EXCEPT ![p] = "stopped"]
    /\ sigchld' = Raise(p)
    /\ UNCHANGED << pc, declVars, services, sigterm, exitstatus, pipeVars, iterVars, conns >>

\* A stopped child is continued (SIGCONT): SIGCHLD again.
ChildCont(p) ==
    /\ EngineRuns /\ proc[p] = "stopped"
    /\ proc' = [proc EXCEPT ![p] = "alive"]
    /\ sigchld' = Raise(p)
    /\ UNCHANGED << pc, declVars, services, sigterm, exitstatus, pipeVars, iterVars, conns >>

\* Some process that is no child of the engine sends it SIGCHLD with kill(2):
\* si_pid is the sender's pid, one the engine never forked or one the kernel
\* gave out again after the engine reaped its child.
ForeignSigchld(p) ==
    /\ EngineRuns /\ pc # "sigaction"
    /\ proc[p] = "reaped" \/ p = MaxServices + 1
    /\ sigchld = 0
    /\ sigchld' = p
    /\ UNCHANGED << pc, declVars, services, proc, sigterm, exitstatus, pipeVars, iterVars,
                    conns >>

\* ------------------------------------------------------ the control clients
\* An endpoint that exists from the entry of run on.
ListenerBoundFromEntry == TRUE
\* The endpoint exists from IPCServer::new on (engine.rs:87).
ListenerBound == pc \in {"read_fd", "pipes_init"} \/ Serving

\* IPCStream::connect (ipc.rs:36-41): the connection waits in the listener's
\* backlog until the engine accepts it.
Connect(c) ==
    /\ EngineRuns /\ ListenerBound
    /\ conns[c] = "unused"
    /\ \A d \in ConnIds : d < c => conns[d] # "unused"
    /\ conns' = [conns EXCEPT ![c] = "pending"]
    /\ UNCHANGED << pc, declVars, services, kernelVars, pipeVars, iterVars >>

\* ------------------------------------------------ Engine::run, serving loop
Pending == {c \in ConnIds : conns[c] = "pending"}
FirstPending == CHOOSE c \in Pending : \A d \in Pending : c <= d

\* engine.rs:93-105  poll(&mut fds, -1) returns once a descriptor is readable
\* (EINTR is retried) and reports every descriptor that is.
Poll ==
    /\ EngineSteps /\ pc = "poll"
    /\ pipe # << >> \/ Pending # {}
    /\ revents' = [pipe |-> pipe # << >>, ipc |-> Pending # {}]
    /\ pc' = "fd_pipe"
    /\ UNCHANGED << declVars, services, kernelVars, pipeVars, waited, pid, stream,
                    msg, wrote, killed, conns >>

\* engine.rs:217-227  read_from_pipe: Ok(pid), or Err on a read of 0 bytes.
read_from_pipe(p) ==
    IF ReadLen(p) = 0
       THEN [ok |-> FALSE, val |-> 0]
       ELSE [ok |-> TRUE, val |-> FromLeBytes(ReadBuf(p))]

\* engine.rs:107-115, 137-139  the pipe's descriptor is ready: read one pid.
DrainPipe ==
    /\ EngineSteps /\ pc = "fd_pipe" /\ revents.pipe
    /\ LET r == read_from_pipe(pipe)
       IN  /\ pipe' = Rest(pipe, ReadLen(pipe))
           /\ IF r.ok
                 THEN /\ pid' = r.val /\ waited' = "drained" /\ pc' = "waitpid"
                      /\ notified' = Tail(notified)
                 ELSE pc' = "fd_ipc" /\ UNCHANGED << pid, waited, notified >>
    /\ UNCHANGED << declVars, services, kernelVars, PIPES, hblock, revents, stream,
                    msg, wrote, killed, conns >>

\* engine.rs:109-111  the pipe's descriptor has no revents: next descriptor.
SkipPipe ==
    /\ EngineSteps /\ pc = "fd_pipe" /\ ~revents.pipe
    /\ pc' = "fd_ipc"
    /\ UNCHANGED << declVars, services, kernelVars, pipeVars, iterVars, conns >>

\* nix WaitStatus values waitpid(pid, None) can return: without WUNTRACED and
\* WCONTINUED only a terminated child is reported.
TerminalStatus == {"Exited", "Signaled"}

\* What waitpid reports for a terminated p: Exited for a child that called
\* exit in Service::start, Exited or Signaled for any other.
WaitStatuses(p) == IF exitstatus[p] # {} THEN {"Exited"} ELSE TerminalStatus

\* engine.rs:124-136  the table after the match on wait_stat for pid k.
ReapedAll(tbl, k, ws) == [q \in DOMAIN tbl |-> [tbl[q] EXCEPT !.status = Stopped]]
ReapedRemoves(tbl, k, ws) == [q \in DOMAIN tbl \ {k} |-> tbl[q]]
ReapedZombie(tbl, k, ws) ==
    IF k \in DOMAIN tbl THEN [tbl EXCEPT ![k].status = Zombie] ELSE tbl
Reaped(tbl, k, ws) ==
    IF k \in DOMAIN tbl
       THEN IF ws = "Exited"
               THEN [tbl EXCEPT ![k].status = Stopped]
               ELSE IF ws = "Signaled"
                       THEN [tbl EXCEPT ![k].status = Stopped]
                       ELSE tbl
       ELSE tbl

\* engine.rs:116-136  waitpid(pid, None) returns for a terminated child (it
\* blocks while the child runs or is stopped: no WNOHANG, no WUNTRACED), the
\* kernel releases the zombie and the record is updated; pid goes out of scope.
Waitpid ==
    /\ EngineSteps /\ pc = "waitpid"
    /\ proc[pid] = "zombie"
    /\ \E ws \in WaitStatuses(pid) : services' = Reaped(services, pid, ws)
    /\ proc' = [proc EXCEPT ![pid] = "reaped"]
    /\ sigterm' = sigterm \ {pid}
    /\ pid' = 0
    /\ waited' = "reaped"
    /\ pc' = "fd_ipc"
    /\ UNCHANGED << declVars, sigchld, exitstatus, pipeVars, revents, stream, msg, wrote,
                    killed, conns >>

\* engine.rs:120  `continue` after a failed waitpid: on to the next
\* descriptor of `for fd in fds`.
AfterWaitErrNextLoop == "end"
AfterWaitErrPanics == "panicked"
AfterWaitErr == "fd_ipc"

\* engine.rs:118-121  waitpid fails with ECHILD (the pid is no child of the
\* engine, or was reaped already): log and continue.
WaitpidFails ==
    /\ EngineSteps /\ pc = "waitpid"
    /\ proc[pid] \in {"none", "reaped"}
    /\ pc' = AfterWaitErr
    /\ pid' = 0
    /\ waited' = "failed"
    /\ UNCHANGED << declVars, services, kernelVars, pipeVars, revents, stream, msg,
                    wrote, killed, conns >>

\* ipc.rs:73-76, engine.rs:141  accept() returns the oldest connection of the
\* backlog; the stream is blocking.
Accept ==
    /\ EngineSteps /\ pc = "fd_ipc" /\ revents.ipc
    /\ stream' = FirstPending
    /\ conns' = [conns EXCEPT ![FirstPending] = "accepted"]
    /\ pc' = "read"
    /\ UNCHANGED << declVars, services, kernelVars, pipeVars, revents, waited, pid,
                    msg, wrote, killed >>

\* engine.rs:141  accept() fails (EMFILE, ENOMEM, ECONNABORTED): unwrap panics.
AcceptFails ==
    /\ EngineSteps /\ pc = "fd_ipc" /\ revents.ipc
    /\ pc' = "panicked"
    /\ UNCHANGED << declVars, services, kernelVars, pipeVars, iterVars, conns >>

\* engine.rs:109-111  the listener has no revents: the iteration is over.
SkipIpc ==
    /\ EngineSteps /\ pc = "fd_ipc" /\ ~revents.ipc
    /\ pc' = "end"
    /\ UNCHANGED << declVars, services, kernelVars, pipeVars, iterVars, conns >>

\* engine.rs:142, ipc.rs:44-46  the client's request (operatorctl/src/main.rs
\* 29-33, 56-60) arrives and stream.read() decodes it.  Until the client has
\* sent it the blocking read waits: no step.
Read ==
    /\ EngineSteps /\ pc = "read"
    /\ \E m \in Requests : msg' = m
    /\ pc' = "dispatch"
    /\ UNCHANGED << declVars, services, kernelVars, pipeVars, revents, waited, pid,
                    stream, wrote, killed, conns >>

\* engine.rs:142, ipc.rs:44-46  the client closed without a request, or sent
\* bytes that do not decode: read() is Err and unwrap panics.
ReadFails ==
    /\ EngineSteps /\ pc = "read"
    /\ pc' = "panicked"
    /\ UNCHANGED << declVars, services, kernelVars, pipeVars, iterVars, conns >>

\* engine.rs:147-150, 161-162  the records `find` can return for a name: the
\* first match in the HashMap's iteration order, which is arbitrary.
Matching(tbl, n) == {p \in DOMAIN tbl : tbl[p].name = n}

\* engine.rs:145  IPCMessage::Start { .. } => {}
HandleStartMarksRunning(tbl, n) ==
    [q \in DOMAIN tbl |-> IF tbl[q].name = n THEN [tbl[q] EXCEPT !.status = Running]
                                             ELSE tbl[q]]
HandleStartDropsRecord(tbl, n) ==
    [q \in DOMAIN tbl \ Matching(tbl, n) |-> tbl[q]]
HandleStart(tbl, n) == tbl

\* engine.rs:146-159  the sets of pids a Stop{name} may signal.
StopTargetsAllMatches(tbl, n) == {Matching(tbl, n)}
StopTargets(tbl, n) ==
    IF Matching(tbl, n) = {} THEN {{}} ELSE {{p} : p \in Matching(tbl, n)}

\* engine.rs:160-173  the replies a Status{name} may get.
StatusReplyAsForked(tbl, n) ==
    IF Matching(tbl, n) = {}
       THEN {StatusResponseNone}
       ELSE {StatusResponseSome(p, Running) : p \in Matching(tbl, n)}
StatusReply(tbl, n) ==
    IF Matching(tbl, n) = {}
       THEN {StatusResponseNone}
       ELSE {StatusResponseSome(p, tbl[p].status) : p \in Matching(tbl, n)}

\* engine.rs:144-175  what the match on msg writes to the stream.
RepliesToAll(tbl, m) ==
    IF m.kind = "Status" THEN {<< r >> : r \in StatusReply(tbl, m.name)}
                         ELSE {<< StatusResponseNone >>}
Replies(tbl, m) ==
    IF m.kind = "Status" THEN {<< r >> : r \in StatusReply(tbl, m.name)} ELSE {<< >>}

\* engine.rs:144-175  the match on msg.  A write to a stream whose peer has
\* closed meanwhile (the client exited or was killed) fails with EPIPE and
\* unwrap panics; otherwise the write succeeds.
Dispatch ==
    /\ EngineSteps /\ pc = "dispatch"
    /\ \E out \in Replies(services, msg) :
       \E tgt \in (IF msg.kind = "Stop" THEN StopTargets(services, msg.name) ELSE {{}}) :
       \E peerOpen \in BOOLEAN :
          /\ wrote' = out
          /\ killed' = {[pid |-> p, was |-> proc[p]] : p \in tgt}
          /\ sigterm' = sigterm \cup {p \in tgt : proc[p] \in {"alive", "stopped"}}
          /\ services' = IF msg.kind = "Start"
                            THEN HandleStart(services, msg.name) ELSE services
          /\ pc' = IF out # << >> /\ ~peerOpen THEN "panicked" ELSE "end"
    /\ UNCHANGED << declVars, proc, sigchld, exitstatus, pipeVars, revents, waited, pid,
                    stream, msg, conns >>

\* engine.rs:176-178  the iteration ends: stream and msg go out of scope (the
\* connection is closed) and the loop builds the next wait-set.
EndIter ==
    /\ EngineSteps /\ pc = "end"
    /\ conns' = IF stream = 0 THEN conns
                ELSE [conns EXCEPT ![stream] = "closed"]
    /\ revents' = NoRevents
    /\ waited' = "none"
    /\ pid' = 0
    /\ stream' = 0
    /\ msg' = NoMsg
    /\ wrote' = << >>
    /\ killed' = {}
    /\ pc' = "poll"
    /\ UNCHANGED << declVars, services, kernelVars, pipeVars >>

\* ------------------------------------------------------------ specification
Next ==
    \/ Sigaction \/ SigactionFails
    \/ ReadServiceFiles \/ ReadServiceFilesFails
    \/ Fork \/ InsertService \/ ForkFails
    \/ IpcServerNew \/ IpcServerNewFails
    \/ ReadFd \/ PipesInit
    \/ Poll
    \/ DrainPipe \/ SkipPipe
    \/ Waitpid \/ WaitpidFails
    \/ Accept \/ AcceptFails \/ SkipIpc
    \/ Read \/ ReadFails
    \/ Dispatch
    \/ EndIter
    \/ signal_handler
    \/ \E p \in Pids : ExecOk(p)
    \/ \E p \in Pids : ExecFails(p)
    \/ \E p \in Pids : ChildExit(p)
    \/ \E p \in Pids : ChildKilled(p)
    \/ \E p \in Pids : ChildStop(p)
    \/ \E p \in Pids : ChildCont(p)
    \/ \E p \in Pids : SigtermKills(p)
    \/ \E p \in Pids : ForeignSigchld(p)
    \/ \E c \in ConnIds : Connect(c)

Spec == Init /\ [][Next]_vars

\* ------------------------------------------------------------------ claims
\* The pids of the notifications in the pipe, oldest first.
PipePids == [i \in 1..(Len(pipe) \div 4) |->
                FromLeBytes(SubSeq(pipe, 4 * i - 3, 4 * i))]

\* A notification naming p is pending, in the pipe, or in the engine's hands.
Notified(p) ==
    \/ sigchld = p
    \/ \E i \in 1..Len(PipePids) : PipePids[i] = p
    \/ pc = "waitpid" /\ pid = p

\* p terminated, its record says Running, and nothing names p any more.
Lost(p) ==
    /\ p \in DOMAIN services
    /\ proc[p] = "zombie"
    /\ services[p].status = Running
    /\ ~Notified(p)

\* A lost exit stays lost: no step of the engine, the kernel or a client
\* names p again, so the engine never waits for it.
LostStaysLost == [][\A p \in Pids : Lost(p) => Lost(p)']_vars

\* Some notification under way names a pid that is no child of the engine.
ForeignInFlight ==
    \/ sigchld \notin DOMAIN services \cup {0}
    \/ \E i \in 1..Len(PipePids) : PipePids[i] \notin DOMAIN services

\* C1: every forked service whose process terminated is eventually recorded
\* Stopped, also when several children terminate before the handler has run.
\* As a property of states: while the engine runs and only its own children
\* raise SIGCHLD, a terminated child whose record still says Running has a
\* notification on its way (by LostStaysLost a state without one is never
\* left, so that record says Running for ever).
C1_EveryExitRecorded ==
    \A p \in Pids : EngineRuns /\ ~ForeignInFlight => ~Lost(p)

\* C2: a record that is Stopped is Stopped in every later state.
C2_StoppedStaysStopped ==
    [][\A p \in DOMAIN services :
          services[p].status = Stopped =>
             p \in DOMAIN services' /\ services'[p].status = Stopped]_vars

\* C2 witness: a Start request naming a Stopped service has been handled.
C2_Witness ==
    /\ pc = "end" /\ msg.kind = "Start"
    /\ \E p \in DOMAIN services :
          services[p].name = msg.name /\ services[p].status = Stopped

\* C3: a record becomes Stopped only in the step where waitpid on its own pid
\* returns a terminal status, never while its process is alive, and the exit
\* of one pid changes no other pid's record.
C3_StoppedOnlyByOwnReap ==
    /\ [][\A p \in DOMAIN services :
             services[p].status # services'[p].status =>
                /\ pc = "waitpid" /\ pid = p
                /\ proc[p] = "zombie" /\ proc'[p] = "reaped"
                /\ services'[p].status = Stopped]_vars
    /\ [](\A p \in DOMAIN services :
             services[p].status = Stopped => proc[p] = "reaped")

\* C3 witness: one child was reaped and recorded while another still runs.
C3_Witness ==
    \E p, q \in DOMAIN services :
       /\ p # q /\ waited = "reaped"
       /\ services[p].status = Stopped /\ proc[p] = "reaped"
       /\ services[q].status = Running /\ proc[q] = "alive"

\* The table holds one record per declared service, under the pid fork
\* returned for it, with that pid and status Running.
TableComplete ==
    /\ Len(forked) = Len(files)
    /\ \A i, j \in 1..Len(forked) : i # j => forked[i] # forked[j]
    /\ DOMAIN services = {forked[i] : i \in 1..Len(forked)}
    /\ Cardinality(DOMAIN services) = Len(files)
    /\ \A i \in 1..Len(forked) :
          services[forked[i]] =
             [name |-> files[i], pid |-> forked[i], status |-> Running]

\* C4: when the engine enters the serving loop the table is complete.
C4_TableAtLoopEntry ==
    [][(pc \in {"read_fd", "pipes_init"} /\ pc' = "poll") => (TableComplete)']_vars

\* C4 witness: the loop was entered with two declared services.
C4_Witness == pc = "poll" /\ Len(files) = MaxServices /\ TableComplete

\* C5: a Status request naming a record is answered Some(pid, status) with
\* that record's key and its status then: Stopped once reaped, else Running.
C5_StatusOfKnownName ==
    [][pc = "dispatch" /\ pc' # pc /\ msg.kind = "Status"
         /\ Matching(services, msg.name) # {} =>
       \E p \in DOMAIN services :
          /\ services[p].name = msg.name
          /\ wrote' = << StatusResponseSome(p, services[p].status) >>
          /\ services[p].status = IF proc[p] = "reaped" THEN Stopped ELSE Running]_vars

\* C5 witness: a Status request for a reaped service was answered Stopped.
C5_Witness ==
    /\ pc = "end" /\ msg.kind = "Status"
    /\ \E p \in DOMAIN services :
          /\ services[p].name = msg.name /\ proc[p] = "reaped"
          /\ wrote = << StatusResponseSome(p, Stopped) >>

\* C6: a Status request naming no record is answered None, leaves the table
\* unchanged, and the engine goes on to the next readiness wait.
C6_StatusOfUnknownName ==
    [][pc = "dispatch" /\ pc' # pc /\ msg.kind = "Status"
         /\ Matching(services, msg.name) = {} =>
       /\ wrote' = << StatusResponseNone >>
       /\ services' = services
       /\ pc' = "end"]_vars

\* C7: a Stop request sends SIGTERM to exactly one pid, that of a record with
\* the name, when there is one, and sends nothing otherwise.
C7_StopSignalsOneMatch ==
    [][pc = "dispatch" /\ pc' # pc /\ msg.kind = "Stop" =>
       IF Matching(services, msg.name) = {}
          THEN killed' = {}
          ELSE /\ Cardinality(killed') = 1
               /\ \A k \in killed' : k.pid \in Matching(services, msg.name)]_vars

\* C7 witness: two records have the name and one SIGTERM was sent.
C7_Witness ==
    /\ pc = "end" /\ msg.kind = "Stop"
    /\ Cardinality(Matching(services, msg.name)) = 2
    /\ Cardinality(killed) = 1

\* C8: a Running service that terminates on the engine's SIGTERM is
\* eventually recorded Stopped by the engine, which is still serving.  As a
\* property of states: while the engine runs and only its own children raise
\* SIGCHLD, such a child is never lost.
C8_StoppedServiceRecorded ==
    \A p \in Pids : EngineRuns /\ ~ForeignInFlight /\ p \in sigterm => ~Lost(p)

C10_BothReadyBothHandled ==
    pc = "end" /\ revents.pipe /\ revents.ipc =>
       waited \in {"reaped", "failed"} /\ msg \in Requests

\* C10 witness: both were ready, waitpid failed, and the request was handled.
C10_Witness ==
    pc = "end" /\ revents.pipe /\ revents.ipc /\ waited = "failed" /\ msg \in Requests

\* C11: no single event of the serving loop terminates the engine: after a
\* failed accept, a request that cannot be read, a failed response write, a
\* failed waitpid or a failed pipe read the engine is still in the loop.
C11_LoopSurvivesEveryEvent ==
    [][Serving => pc' \in {"poll", "fd_pipe", "waitpid", "fd_ipc", "read",
                           "dispatch", "end"}]_vars

\* ------------------------------------------------------------------ fairness
\* The steps of run that complete by themselves once they are enabled.  The
\* step that reads a request is not one of them: stream.read() returns when
\* the client has sent its request or closed, which a client need never do.
\* Nothing obliges a child to terminate, stop or continue, nor a client to
\* connect.
EngineProgress ==
    \/ Sigaction \/ SigactionFails
    \/ ReadServiceFiles \/ ReadServiceFilesFails
    \/ Fork \/ InsertService \/ ForkFails
    \/ IpcServerNew \/ IpcServerNewFails
    \/ ReadFd \/ PipesInit
    \/ Poll
    \/ DrainPipe \/ SkipPipe
    \/ Waitpid \/ WaitpidFails
    \/ Accept \/ AcceptFails \/ SkipIpc
    \/ Dispatch
    \/ EndIter

\* The engine's thread is scheduled and pending signals are delivered.
FairSpec == Init /\ [][Next]_vars /\ WF_vars(EngineProgress) /\ WF_vars(signal_handler)

\* The pipe holds the notification of a terminated child of the engine.
ChildExitInPipe ==
    \E p \in DOMAIN services :
       proc[p] = "zombie" /\ \E i \in 1..Len(PipePids) : PipePids[i] = p

\* C12: a client that connected and never sends its request does not keep the
\* engine from the signal bridge: when a child of the engine terminated and
\* its notification was written to the pipe while the engine holds the
\* accepted connection, the notification is eventually drained (or the
\* request arrives after all and the engine goes on).  The handler stuck on a
\* full pipe is another matter and is left out.
C12_SilentClientDoesNotBlockBridge ==
    (pc = "read" /\ ~revents.pipe /\ ChildExitInPipe)
       ~> (pc # "read" \/ ~ChildExitInPipe \/ hblock # "no")

\* C13: a notification caused by a child that was stopped or continued leaves
\* the record as it is and the engine goes back to poll without waiting for
\* the child to terminate; poll is the only place where the engine waits.
\* As a property of states: whenever the engine calls waitpid on a drained
\* pid the call returns at once, because the pid's process has terminated
\* (a status to collect) or is no child of the engine (ECHILD).
C13_WaitpidReturnsAtOnce ==
    pc = "waitpid" => proc[pid] \in {"zombie", "none", "reaped"}

\* C14: the handler's write never blocks: with the pipe full it fails or is
\* dropped, so the handler never waits for room in the pipe on top of the
\* thread that is the pipe's only reader.
C14_HandlerNeverWaitsForPipe == hblock # "pipe_full"

\* ------------------------------------------------------- comms on its own
\* Values of an i32 whose encodings differ in every byte position: one-byte,
\* two-byte and three-byte pids, the largest pid of Linux (2^22), the largest
\* i32, and a negative value.
SamplePids == {1, 256, 65535, 4194304, 2147483647, -1}

\* The pipe exists and is empty; nothing of Engine::run takes part.
PipeInit ==
    /\ pc = "comms"
    /\ files = << >>
    /\ idx = 1
    /\ services = << >>
    /\ forked = << >>
    /\ proc = [p \in Pids |-> "none"]
    /\ sigchld = 0
    /\ sigterm = {}
    /\ exitstatus = [p \in Pids |-> {}]
    /\ PIPES = "done"
    /\ pipe = << >>
    /\ notified = << >>
    /\ hblock = "no"
    /\ revents = NoRevents
    /\ waited = "none"
    /\ pid = 0
    /\ conns = [c \in ConnIds |-> "unused"]
    /\ stream = 0
    /\ msg = NoMsg
    /\ wrote = << >>
    /\ killed = {}

\* engine.rs:233-237  write_to_pipe(val), while the pipe has room.
Notify(val) ==
    /\ pc = "comms" /\ PipeHasRoom
    /\ pipe' = write_to_pipe(pipe, val)
    /\ notified' = Append(notified, val)
    /\ UNCHANGED << pc, declVars, services, kernelVars, PIPES, hblock, iterVars, conns >>

\* engine.rs:217-227  read_from_pipe() on a pipe that has data.
DrainOne ==
    /\ pc = "comms" /\ pipe # << >>
    /\ LET r == read_from_pipe(pipe)
       IN  /\ r.ok
           /\ pid' = r.val
           /\ pipe' = Rest(pipe, ReadLen(pipe))
           /\ notified' = Tail(notified)
    /\ UNCHANGED << pc, declVars, services, kernelVars, PIPES, hblock, revents, waited,
                    stream, msg, wrote, killed, conns >>

PipeNext ==
    \/ \E val \in SamplePids : Notify(val)
    \/ DrainOne

PipeSpec == PipeInit /\ [][PipeNext]_vars

\* C15: the pipe is a FIFO queue of whole 4-byte little-endian pids: what it
\* holds decodes to the values written and not yet read, in the order
\* written, and every read returns the oldest of them and removes it.
C15_PipeIsFifoOfPids ==
    /\ [](Len(pipe) = 4 * Len(notified))
    /\ [](\A i \in 1..Len(notified) : PipePids[i] = notified[i])
    /\ [][Len(pipe') < Len(pipe) =>
             /\ pid' = Head(notified)
             /\ notified' = Tail(notified)
             /\ pipe' = SubSeq(pipe, 5, Len(pipe))]_vars

\* C15 witness: two pids were written, the first (more than one byte long)
\* was read back and the second is still in the pipe.
C15_Witness ==
    /\ pc = "comms" /\ pid \notin 0..255 /\ Len(notified) = 1
    /\ notified[1] # pid

\* C16: when registering the handler fails run returns with no service
\* forked, an empty table and no control endpoint, and it never enters the
\* serving loop: run returns from the sigaction step only, and what has
\* returned stays returned.
C16_SigactionFailureReturnsClean ==
    /\ [](pc = "returned" =>
             /\ services = << >> /\ forked = << >> /\ idx = 1
             /\ \A p \in Pids : proc[p] = "none"
             /\ \A c \in ConnIds : conns[c] = "unused"
             /\ ~ListenerBound)
    /\ [][pc' = "returned" => pc \in {"sigaction", "returned"}]_vars
    /\ [][pc = "returned" => pc' = "returned"]_vars

\* C16 witness: run has returned although service files are declared.
C16_Witness == pc = "returned" /\ Len(files) = MaxServices /\ services = << >>

\* C17: handling a Start request changes nothing of the engine's state: the
\* table is as before, no process is forked and no signal is sent, whether
\* or not a record has the name.
C17_StartChangesNothing ==
    [][pc = "dispatch" /\ pc' # pc /\ msg.kind = "Start" =>
          /\ services' = services
          /\ proc' = proc /\ forked' = forked
          /\ killed' = {} /\ sigterm' = sigterm]_vars

\* C17 witness: a Start request naming a running service has been handled.
C17_Witness ==
    /\ pc = "end" /\ msg.kind = "Start"
    /\ \E p \in Matching(services, msg.name) :
          services[p].status = Running /\ proc[p] = "alive"

\* C18: no record is ever removed: from the start of the serving loop on the
\* table has the same keys in every state.
C18_TableKeysFixed ==
    [][Serving => DOMAIN services' = DOMAIN services]_vars

\* C18 witness: with two records, one child has been reaped and a request
\* naming it has been handled.
C18_Witness ==
    /\ pc = "end" /\ msg \in Requests
    /\ Cardinality(DOMAIN services) = MaxServices
    /\ \E p \in Matching(services, msg.name) : proc[p] = "reaped"

\* C20: every record has its key as pid and is Running or Stopped, never
\* without a status and never Zombie, so a Status reply can always be built
\* from a record that was found.
C20_RecordsWellFormed ==
    \A p \in DOMAIN services :
       /\ services[p].pid = p
       /\ services[p].status \in {Running, Stopped}

\* C20 witness: a Status reply was built from a Stopped record while another
\* record is Running.
C20_Witness ==
    /\ pc = "end" /\ msg.kind = "Status" /\ Len(wrote) = 1
    /\ wrote[1].some /\ wrote[1].status = Stopped
    /\ \E q \in DOMAIN services : services[q].status = Running

\* C19: a child whose exec fails ends with a non-zero exit status and never
\* runs the supervisor's code (the rest of the fork loop, the serving loop);
\* the supervisor is not affected by the step and keeps running, and when it
\* reaps that child the record goes from Running to Stopped as for any other
\* exit.
C19_ExecFailureStaysInChild ==
    /\ [](\A p \in Pids :
             /\ proc[p] \in {"none", "starting", "alive", "stopped", "zombie", "reaped"}
             /\ \A st \in exitstatus[p] : st \in 1..255)
    /\ [][\A p \in Pids :
             exitstatus'[p] # exitstatus[p] =>
                /\ proc[p] = "starting" /\ proc'[p] = "zombie"
                /\ pc' = pc /\ services' = services /\ forked' = forked
                /\ EngineRuns']_vars
    /\ [][pc = "waitpid" /\ pc' # pc /\ proc[pid] = "zombie" /\ exitstatus[pid] # {} =>
             /\ pid \in DOMAIN services
             /\ services[pid].status = Running
             /\ services'[pid].status = Stopped]_vars

\* C19 witness: the engine, still running, has reaped a child whose exec
\* failed and recorded it Stopped.
C19_Witness ==
    /\ EngineRuns /\ waited = "reaped"
    /\ \E p \in DOMAIN services :
          /\ exitstatus[p] # {} /\ proc[p] = "reaped"
          /\ services[p].status = Stopped

\* C21: whenever the engine drains the notification of a child it forked,
\* that child's record is in the table already, also when the child ended
\* right after fork, before the parent inserted the record.
C21_RecordBeforeDrain ==
    [][pc = "fd_pipe" /\ pc' = "waitpid"
         /\ (\E i \in 1..Len(forked) : forked[i] = pid') =>
       /\ pid' \in DOMAIN services
       /\ services[pid'].pid = pid']_vars

\* C21 witness: the notification of a child whose exec failed has been
\* drained; the child is in the table and not yet reaped.
C21_Witness ==
    /\ pc = "waitpid" /\ pid \in DOMAIN services
    /\ exitstatus[pid] # {} /\ proc[pid] = "zombie"

\* C22: draining a notification for a pid that is no key of the table, or
\* for a pid that was reaped already (waitpid fails with ECHILD), leaves
\* every record as it was, and the engine goes on with the loop.
C22_UnknownPidIgnored ==
    [][pc = "waitpid" /\ pc' # pc
         /\ (pid \notin DOMAIN services \/ proc[pid] = "reaped") =>
       /\ services' = services
       /\ pc' = "fd_ipc"]_vars

\* C22 witness: waitpid has failed in this iteration, in an engine that has
\* a reaped child recorded Stopped, and the engine is on its way.
C22_Witness ==
    /\ waited = "failed" /\ pc \in {"fd_ipc", "read", "dispatch", "end"}
    /\ \E p \in DOMAIN services : proc[p] = "reaped" /\ services[p].status = Stopped

\* C23: every time the pipe is reported ready the engine drains one
\* notification, and once notifications stop being written it drains them
\* all: the pipe does not stay non-empty for ever unless signals keep
\* arriving.  An engine that has ended or whose handler is stuck, and one
\* that waits for a client's request, are other matters and are left out.
C23_PipeEventuallyDrained ==
    []<>(pipe = << >> \/ sigchld # 0 \/ ~EngineRuns \/ pc = "read")

\* C24: the pipe exists before the handler first runs: the handler's write
\* never performs the lazy initialization of PIPES, and the handler never
\* runs while the engine's thread is in the middle of it.
C24_PipeCreatedBeforeHandler ==
    [][sigchld # 0 /\ sigchld' = 0 => PIPES = "done"]_vars

\* C25: the engine never signals a pid it has reaped: a Stop request whose
\* matching record is Stopped sends no SIGTERM.
C25_NoSignalToReapedPid ==
    \A k \in killed :
       /\ k.was # "reaped"
       /\ services[k.pid].status # Stopped

\* C26: whenever startup is aborted, by the failure to register the handler
\* or by the failure to bind the control endpoint, the serving loop was not
\* entered and no service process has been forked.
C26_AbortedStartupForkedNothing ==
    [][(\/ pc = "sigaction" /\ pc' = "returned"
        \/ pc = "fork" /\ idx > Len(files) /\ pc' = "panicked") =>
       /\ forked = << >>
       /\ \A p \in Pids : proc[p] = "none"]_vars

====
